---- MODULE Spec2Model ----
(***************************************************************************)
(* The AI action pipeline of the chat page (src/pages/chat.tsx): the send  *)
(* flow (handleSend), the confirmation slot (pendingAction), the apply     *)
(* flow (applyAction) with its resolvers, and the persistence              *)
(* collaborators it calls (src/lib/appointmentReminders.ts and siblings).  *)
(*                                                                         *)
(* Every await on the network is a point where another handler of the     *)
(* page may run, so each handler is cut into one action per awaited call.  *)
(* A handler works on the values its closure captured when it was invoked. *)
(***************************************************************************)
EXTENDS Integers, Sequences, FiniteSets, TLC

(* ------------------------------ bounds --------------------------------- *)

\* Gestures of the user in one session that start a handler with effects:
\* Send, Apply change, Dismiss, Cancel, Clear Conversation.
MaxGestures == 3

(* --------------------------- loosely typed values ----------------------- *)
\* A text is a sequence of tokens: words, " " (white space) and ",".
\* A JSON value of the data bag carries its typeof tag.

Undefined == [t |-> "undefined", s |-> <<>>, n |-> 0]
Null == [t |-> "object", s |-> <<>>, n |-> 0]
Str(text) == [t |-> "string", s |-> text, n |-> 0]
Num(k) == [t |-> "number", s |-> <<>>, n |-> k]

TypeOf(v) == v.t

\* JavaScript truthiness of a value of the bag.
Truthy(v) ==
  CASE v.t = "string" -> v.s # <<>>
    [] v.t = "number" -> v.n # 0
    [] OTHER -> FALSE

\* String.prototype.toLowerCase, token by token.
LowerToken(tok) ==
  CASE tok = "Dentist" -> "dentist"
    [] tok = "DENTIST" -> "dentist"
    [] tok = "Aspirin" -> "aspirin"
    [] tok = "Headache" -> "headache"
    [] tok = "Tomorrow" -> "tomorrow"
    [] tok = "Today" -> "today"
    [] OTHER -> tok

toLowerCase(text) == [i \in 1..Len(text) |-> LowerToken(text[i])]

RECURSIVE TrimLeft(_)
TrimLeft(text) ==
  IF text # <<>> /\ Head(text) = " " THEN TrimLeft(Tail(text)) ELSE text

RECURSIVE TrimRight(_)
TrimRight(text) ==
  IF text # <<>> /\ text[Len(text)] = " "
  THEN TrimRight(SubSeq(text, 1, Len(text) - 1))
  ELSE text

\* String.prototype.trim
trim(text) == TrimRight(TrimLeft(text))

(* ------------------------------ instants -------------------------------- *)
\* An instant is a number of hours; NoInstant stands for null / Invalid Date.

HoursPerDay == 24
NoInstant == -1
DayOf(instant) == instant \div HoursPerDay
StartOfDay(day) == day * HoursPerDay

\* Date.parse of an absolute date-time string.
DateParse(text) ==
  CASE text = <<"2025-03-10T08:00:00Z">> -> StartOfDay(12) + 8
    [] text = <<"2025-03-11T09:00:00Z">> -> StartOfDay(13) + 9
    [] OTHER -> NoInstant

\* The hour a time-of-day fragment denotes when it follows a date string.
TimeOfDay(text) ==
  CASE text = <<>> -> 0
    [] text = <<"5:00 PM">> -> 17
    [] text = <<"8:00 AM">> -> 8
    [] OTHER -> NoInstant

\* tryCombine: new Date((date.toDateString() + " " + timePart).trim())
tryCombine(date, timePart) ==
  IF TimeOfDay(trim(timePart)) = NoInstant
  THEN NoInstant
  ELSE StartOfDay(DayOf(date)) + TimeOfDay(trim(timePart))

\* A resolver for which every relative word names today.
baseDateAlwaysToday(lower, today) ==
  IF lower = <<>> THEN NoInstant
  ELSE IF Head(lower) \in {"tomorrow", "tmr", "yesterday", "today", "tonight"}
  THEN today
  ELSE NoInstant

\* baseDateFromKeyword: the day the leading relative word names, or null.
baseDateFromKeyword(lower, today) ==
  IF lower = <<>> THEN NoInstant
  ELSE CASE Head(lower) \in {"tomorrow", "tmr"} -> today + HoursPerDay
         [] Head(lower) = "yesterday" -> today - HoursPerDay
         [] Head(lower) \in {"today", "tonight"} -> today
         [] OTHER -> NoInstant

RECURSIVE SkipSeparators(_)
SkipSeparators(text) ==
  IF text # <<>> /\ Head(text) \in {",", " "}
  THEN SkipSeparators(Tail(text))
  ELSE text

\* text.replace(/^word[, ]*/i, "")
StripKeyword(text, word) ==
  IF text # <<>> /\ LowerToken(Head(text)) = word
  THEN SkipSeparators(Tail(text))
  ELSE text

\* parseDateTime(value) evaluated at the instant today.
parseDateTime(value, today) ==
  IF ~Truthy(value) \/ TypeOf(value) # "string" THEN NoInstant
  ELSE
    LET trimmed == trim(value.s)
        lower == toLowerCase(trimmed)
        keywordDate == baseDateFromKeyword(lower, today)
        timePart ==
          trim(StripKeyword(StripKeyword(StripKeyword(StripKeyword(StripKeyword(
            trimmed, "today"), "tonight"), "tomorrow"), "tmr"), "yesterday"))
        combined == tryCombine(keywordDate, timePart)
        direct == DateParse(trimmed)
    IN  IF keywordDate # NoInstant /\ timePart = <<>> THEN NoInstant
        ELSE IF keywordDate # NoInstant /\ combined # NoInstant THEN combined
        ELSE IF direct # NoInstant THEN direct
        ELSE tryCombine(today, trimmed)

(* ------------------------------ payloads -------------------------------- *)

Entities == {"appointment", "medication", "health_log"}
Intents == {"create", "update", "delete"}

Fields ==
  {"id", "appointment_name", "date", "medication_name", "reminder_time",
   "dosage", "recurrence", "symptom_type", "severity", "mood",
   "medication_intake", "notes", "start_date"}

\* The data bag of an ActionPayload: a member the JSON omits reads undefined.
Bag(members) ==
  [f \in Fields |-> IF f \in DOMAIN members THEN members[f] ELSE Undefined]

EmptyBag == [f \in Fields |-> Undefined]

\* type ActionPayload = { entity; intent; data }
ActionPayload(entity, intent, data) ==
  [entity |-> entity, intent |-> intent, data |-> data]

\* useState<ActionPayload | null>(null): the empty slot.
NoAction == [entity |-> "null", intent |-> "null", data |-> EmptyBag]

(* ------------------------- persistence collaborators --------------------- *)
\* A stored record: its id, its name/label (a string, or null for a health
\* log without symptom_type) and its canonical instant.

Record(id, name, date) == [id |-> id, name |-> name, date |-> date]

\* The column that names a record and the column that dates it, per table.
NameKeys == {"appointment_name", "medication_name", "symptom_type"}
DateKeys == {"date", "reminder_time", "start_date"}

IdsOf(table) == {table[i].id : i \in 1..Len(table)}

\* listAll(userId): select * where user_profile_id = userId
listAll(table) == table

\* insert(...).select("*").single(): the row the store adds
DbCreate(table, id, name, date) == Append(table, Record(id, name, date))

\* update(patch).eq("id", id): only the members of the patch are written
DbUpdate(table, id, patch) ==
  [i \in 1..Len(table) |->
     IF table[i].id # id THEN table[i]
     ELSE Record(id,
                 IF patch.fields \cap NameKeys # {} THEN patch.name
                 ELSE table[i].name,
                 IF patch.fields \cap DateKeys # {} THEN patch.date
                 ELSE table[i].date)]

RECURSIVE Without(_, _)
Without(table, id) ==
  IF table = <<>> THEN <<>>
  ELSE IF Head(table).id = id THEN Without(Tail(table), id)
  ELSE <<Head(table)>> \o Without(Tail(table), id)

\* delete().eq("id", id)
DbDelete(table, id) == Without(table, id)

\* One call of a write collaborator, as applyAction issues it.
WriteCall(op, entity, id, name, date, fields) ==
  [op |-> op, entity |-> entity, id |-> id, name |-> name, date |-> date,
   fields |-> fields]

NoCall == WriteCall("none", "null", <<>>, Undefined, NoInstant, {})

\* .single() reports an error when no row has the id; a create needs no row.
RowExists(table, call) == call.op = "create" \/ call.id \in IdsOf(table)

\* The table after the write call succeeded; newId is the id the store gives.
DbApply(table, call, newId) ==
  CASE call.op = "create" -> DbCreate(table, newId, call.name, call.date)
    [] call.op = "update" -> DbUpdate(table, call.id, call)
    [] call.op = "delete" -> DbDelete(table, call.id)
    [] OTHER -> table

(* ------------------------------ resolvers -------------------------------- *)

\* A search that keeps the last match instead of the first.
LastIndex(hits) ==
  IF hits = {} THEN 0 ELSE CHOOSE i \in hits : \A j \in hits : j <= i

\* Array.prototype.find: the first index among those that match, or 0.
FirstIndex(hits) ==
  IF hits = {} THEN 0 ELSE CHOOSE i \in hits : \A j \in hits : i <= j

\* A resolver that guesses: with no match it takes the first record.
IdOfFirstRecord(list, i) ==
  IF i # 0 THEN Str(list[i].id)
  ELSE IF Len(list) > 0 THEN Str(list[1].id) ELSE Undefined

\* match?.id
IdOfMatch(list, i) == IF i = 0 THEN Undefined ELSE Str(list[i].id)

StringOrUndefined(v) == IF TypeOf(v) = "string" THEN v ELSE Undefined

\* The lower-cased name of the reference, "" when it is no string.
LowerName(v) == IF TypeOf(v) = "string" THEN toLowerCase(v.s) ELSE <<>>

\* A resolver that looks at the snapshot before it looks at the id.
NeedsListAllWhenEmpty(latest, data) == Len(latest) = 0

\* The resolver fetches the list itself only without a string id and with an
\* empty cached snapshot.
NeedsListAll(latest, data) == TypeOf(data["id"]) # "string" /\ Len(latest) = 0

\* A resolver that searches what listAll answered, whatever the snapshot.
SearchFetched(latest, fetched) == fetched

\* const appts = latestAppts.length ? latestAppts : await listAll(user.id)
SearchList(latest, fetched) == IF Len(latest) > 0 THEN latest ELSE fetched

resolveAppointmentId(appts, data, today) ==
  IF TypeOf(data["id"]) = "string" THEN data["id"]
  ELSE
    LET name == LowerName(data["appointment_name"])
        dateIso == parseDateTime(StringOrUndefined(data["date"]), today)
        Matches(a) ==
          \/ name # <<>> /\ toLowerCase(a.name.s) = name
          \/ dateIso # NoInstant /\ a.date = dateIso
    IN  IdOfMatch(appts, FirstIndex({i \in 1..Len(appts) : Matches(appts[i])}))

resolveMedicationId(meds, data, today) ==
  IF TypeOf(data["id"]) = "string" THEN data["id"]
  ELSE
    LET name == LowerName(data["medication_name"])
        timeIso == parseDateTime(StringOrUndefined(data["reminder_time"]), today)
        Matches(m) ==
          \/ name # <<>> /\ toLowerCase(m.name.s) = name
          \/ timeIso # NoInstant /\ m.date = timeIso
    IN  IdOfMatch(meds, FirstIndex({i \in 1..Len(meds) : Matches(meds[i])}))

resolveHealthLogId(logs, data, today) ==
  IF TypeOf(data["id"]) = "string" THEN data["id"]
  ELSE
    LET symptom == LowerName(data["symptom_type"])
        startIso == parseDateTime(StringOrUndefined(data["start_date"]), today)
        Matches(l) ==
          \/ symptom # <<>>
             /\ toLowerCase(IF TypeOf(l.name) = "string" THEN l.name.s ELSE <<>>)
                = symptom
          \/ startIso # NoInstant /\ l.date = startIso
    IN  IdOfMatch(logs, FirstIndex({i \in 1..Len(logs) : Matches(logs[i])}))

(* --------------------- applyAction: validation and call ------------------ *)
\* What one branch of applyAction does between the resolution of the id and
\* the write: either it throws (error is the message) or it issues call.

\* A validation whose error is swallowed.
ThrowNothing(message) == [error |-> "", call |-> NoCall]

Throw(message) == [error |-> message, call |-> NoCall]
Issue(call) == [error |-> "", call |-> call]

\* Number(text): NaN is NoNumber.
NoNumber == -1
Number(text) ==
  CASE text = <<>> -> 0
    [] text = <<"7">> -> 7
    [] text = <<"8">> -> 8
    [] OTHER -> NoNumber

\* The keys among keys whose value in the bag is a string.
StringKeys(data, keys) == {k \in keys : TypeOf(data[k]) = "string"}

\* The keys among keys whose value in the bag is a string or null.
StringOrNullKeys(data, keys) ==
  {k \in keys : TypeOf(data[k]) = "string" \/ data[k] = Null}

\* Number(data.severity) is a number: typeof number, or a numeric string.
SeverityKeys(data) ==
  IF TypeOf(data["severity"]) = "number" THEN {"severity"}
  ELSE IF TypeOf(data["severity"]) = "string"
          /\ Number(data["severity"].s) # NoNumber THEN {"severity"}
  ELSE {}

\* Object.keys(updatePayload) of the update branch of each entity.
UpdateKeys(entity, data, today) ==
  CASE entity = "appointment" ->
         StringKeys(data, {"appointment_name"})
           \cup (IF parseDateTime(StringOrUndefined(data["date"]), today) # NoInstant
                 THEN {"date"} ELSE {})
    [] entity = "medication" ->
         StringKeys(data, {"medication_name"})
           \cup (IF parseDateTime(StringOrUndefined(data["reminder_time"]), today)
                    # NoInstant
                 THEN {"reminder_time"} ELSE {})
           \cup StringOrNullKeys(data, {"dosage", "recurrence"})
    [] entity = "health_log" ->
         StringKeys(data, {"symptom_type", "mood", "medication_intake", "notes"})
           \cup SeverityKeys(data)
           \cup (IF parseDateTime(StringOrUndefined(data["start_date"]), today)
                    # NoInstant
                 THEN {"start_date"} ELSE {})
    [] OTHER -> {}

\* pendingAction.entity === "appointment"; id is what resolveAppointmentId gave.
ApplyAppointment(intent, data, id, today) ==
  LET dateIso == parseDateTime(StringOrUndefined(data["date"]), today)
      keys == UpdateKeys("appointment", data, today)
  IN  CASE intent = "create" ->
             IF TypeOf(data["appointment_name"]) # "string"
             THEN Throw("Appointment name is required to create.")
             ELSE IF dateIso = NoInstant
             THEN Throw("Valid appointment date/time is required to create. Please provide a time.")
             ELSE Issue(WriteCall("create", "appointment", <<>>,
                                  data["appointment_name"], dateIso,
                                  {"user_profile_id", "appointment_name", "date"}))
        [] intent = "update" ->
             IF ~Truthy(id) THEN Throw("Unable to find appointment to update.")
             ELSE IF keys = {} THEN Throw("No valid fields to update.")
             ELSE Issue(WriteCall("update", "appointment", id.s,
                                  data["appointment_name"], dateIso, keys))
        [] intent = "delete" ->
             IF ~Truthy(id) THEN Throw("Unable to find appointment to delete.")
             ELSE Issue(WriteCall("delete", "appointment", id.s,
                                  Undefined, NoInstant, {}))
        [] OTHER -> Issue(NoCall)

\* pendingAction.entity === "medication"
ApplyMedication(intent, data, id, today) ==
  LET timeIso == parseDateTime(StringOrUndefined(data["reminder_time"]), today)
      keys == UpdateKeys("medication", data, today)
  IN  CASE intent = "create" ->
             IF TypeOf(data["medication_name"]) # "string"
             THEN Throw("Medication name is required to create.")
             ELSE IF timeIso = NoInstant
             THEN Throw("Valid reminder time is required to create.")
             ELSE Issue(WriteCall("create", "medication", <<>>,
                                  data["medication_name"], timeIso,
                                  {"user_profile_id", "medication_name",
                                   "reminder_time", "dosage", "recurrence"}))
        [] intent = "update" ->
             IF ~Truthy(id) THEN Throw("Unable to find medication to update.")
             ELSE IF keys = {} THEN Throw("No valid fields to update.")
             ELSE Issue(WriteCall("update", "medication", id.s,
                                  data["medication_name"], timeIso, keys))
        [] intent = "delete" ->
             IF ~Truthy(id) THEN Throw("Unable to find medication to delete.")
             ELSE Issue(WriteCall("delete", "medication", id.s,
                                  Undefined, NoInstant, {}))
        [] OTHER -> Issue(NoCall)

\* A start date passed as the resolver gave it, null included.
KeepStart(startIso, today) == startIso

\* startIso ?? new Date().toISOString()
DefaultStart(startIso, today) == IF startIso # NoInstant THEN startIso ELSE today

\* pendingAction.entity === "health_log"
ApplyHealthLog(intent, data, id, today) ==
  LET startIso == parseDateTime(StringOrUndefined(data["start_date"]), today)
      keys == UpdateKeys("health_log", data, today)
  IN  CASE intent = "create" ->
             IF TypeOf(data["symptom_type"]) # "string"
             THEN Throw("Symptom type is required to create a health log.")
             ELSE Issue(WriteCall("create", "health_log", <<>>,
                                  data["symptom_type"],
                                  DefaultStart(startIso, today),
                                  {"user_profile_id", "symptom_type", "severity",
                                   "mood", "medication_intake", "notes",
                                   "start_date"}))
        [] intent = "update" ->
             IF ~Truthy(id) THEN Throw("Unable to find health log to update.")
             ELSE IF keys = {} THEN Throw("No valid fields to update.")
             ELSE Issue(WriteCall("update", "health_log", id.s,
                                  data["symptom_type"], startIso, keys))
        [] intent = "delete" ->
             IF ~Truthy(id) THEN Throw("Unable to find health log to delete.")
             ELSE Issue(WriteCall("delete", "health_log", id.s,
                                  Undefined, NoInstant, {}))
        [] OTHER -> Issue(NoCall)

\* The resolver of the action's entity, on the list it searches.
ResolveId(action, list, today) ==
  CASE action.entity = "appointment" ->
         resolveAppointmentId(list, action.data, today)
    [] action.entity = "medication" ->
         resolveMedicationId(list, action.data, today)
    [] action.entity = "health_log" ->
         resolveHealthLogId(list, action.data, today)
    [] OTHER -> Undefined

\* The branch of applyAction the entity selects; a create resolves no id.
ApplyBranch(action, list, today) ==
  LET id == IF action.intent = "create" THEN Undefined
            ELSE ResolveId(action, list, today)
  IN  CASE action.entity = "appointment" ->
             ApplyAppointment(action.intent, action.data, id, today)
        [] action.entity = "medication" ->
             ApplyMedication(action.intent, action.data, id, today)
        [] action.entity = "health_log" ->
             ApplyHealthLog(action.intent, action.data, id, today)
        [] OTHER -> Issue(NoCall)

(* ------------------------- parseAction (assistant text) ------------------ *)
\* An assistant reply is a text whose tokens may be the opening fence, the
\* closing fence, white space, words, and JSON objects written as one token.

\* The fence is three backquotes; the opening one carries the language tag,
\* and its first three characters close a block as a bare fence does.
FenceOpen == "<fence>symptomsync-action"
FenceClose == "<fence>"

\* The JSON objects the replies of the model carry, by token.
JsonObjects ==
  [apptCreate |->
     ActionPayload("appointment", "create",
       Bag([appointment_name |-> Str(<<"Checkup">>),
            date |-> Str(<<"tomorrow", " ", "5:00 PM">>)])),
   apptCreateNoTime |->
     ActionPayload("appointment", "create",
       Bag([appointment_name |-> Str(<<"Checkup">>),
            date |-> Str(<<"Tomorrow">>)])),
   apptUpdateByName |->
     ActionPayload("appointment", "update",
       Bag([appointment_name |-> Str(<<"DENTIST">>),
            date |-> Str(<<"2025-03-11T09:00:00Z">>)])),
   apptUpdateNothing |->
     ActionPayload("appointment", "update", Bag([id |-> Num(1)])),
   apptDeleteById |->
     ActionPayload("appointment", "delete", Bag([id |-> Str(<<"gone">>)])),
   apptDeleteNoMatch |->
     ActionPayload("appointment", "delete",
       Bag([appointment_name |-> Str(<<"Checkup">>)])),
   apptDeleteByDate |->
     ActionPayload("appointment", "delete",
       Bag([date |-> Str(<<"2025-03-10T08:00:00Z">>)])),
   medCreate |->
     ActionPayload("medication", "create",
       Bag([medication_name |-> Str(<<"Aspirin">>),
            reminder_time |-> Str(<<"2025-03-10T08:00:00Z">>)])),
   medCreateNoName |->
     ActionPayload("medication", "create",
       Bag([reminder_time |-> Str(<<"8:00 AM">>)])),
   medUpdateDosage |->
     ActionPayload("medication", "update",
       Bag([id |-> Str(<<"1">>), dosage |-> Null])),
   medDeleteByName |->
     ActionPayload("medication", "delete",
       Bag([medication_name |-> Str(<<"aspirin">>)])),
   logCreateNoSymptom |->
     ActionPayload("health_log", "create", Bag([severity |-> Num(7)])),
   logCreateDated |->
     ActionPayload("health_log", "create",
       Bag([symptom_type |-> Str(<<"Headache">>),
            start_date |-> Str(<<"2025-03-10T08:00:00Z">>)])),
   logCreateUndated |->
     ActionPayload("health_log", "create",
       Bag([symptom_type |-> Str(<<"Headache">>),
            start_date |-> Str(<<"Tomorrow">>)])),
   logUpdateIdOnly |->
     ActionPayload("health_log", "update", Bag([id |-> Str(<<"1">>)])),
   logDeleteBySymptom |->
     ActionPayload("health_log", "delete",
       Bag([symptom_type |-> Str(<<"headache">>)])),
   unknownEntity |->
     ActionPayload("profile", "update", Bag([id |-> Str(<<"1">>)]))]

\* An object without a data member: reading a member of its data throws.
NoData == [f \in Fields |-> [t |-> "absent", s |-> <<>>, n |-> 0]]

\* Other JSON objects a reply may carry: one without data, one without
\* intent, one without entity (an absent member reads "undefined").
JsonOddities ==
  [noData |-> ActionPayload("appointment", "create", NoData),
   noIntent |->
     ActionPayload("appointment", "undefined",
       Bag([appointment_name |-> Str(<<"Checkup">>)])),
   noEntity |->
     ActionPayload("undefined", "create",
       Bag([appointment_name |-> Str(<<"Checkup">>)]))]

JsonTexts == JsonObjects @@ JsonOddities

\* A payload one of whose strings holds a fence: its JSON text is cut in
\* three by that fence.
FenceNotePayload ==
  ActionPayload("health_log", "update",
    Bag([id |-> Str(<<"1">>), notes |-> Str(<<FenceClose>>)]))

FenceNoteText == <<"{fenceNote", FenceClose, "fenceNote}">>

\* Tokens that hold an opening brace, a closing brace: the JSON objects, a
\* text in braces that is no JSON, and the two ends of FenceNoteText.
OpenBraceTokens == DOMAIN JsonTexts \cup {"{oops}", "{fenceNote"}
CloseBraceTokens == DOMAIN JsonTexts \cup {"{oops}", "fenceNote}"}

\* JSON.parse(raw): the object of a text that is one JSON token between
\* white space; null stands for the SyntaxError the caller catches.
JsonParse(raw) ==
  LET body == trim(raw)
  IN  IF Len(body) = 1 /\ body[1] \in DOMAIN JsonTexts
      THEN JsonTexts[body[1]]
      ELSE IF body = FenceNoteText THEN FenceNotePayload ELSE NoAction

\* tryParse: the parsed object when entity and intent are known values.
tryParse(raw) ==
  LET parsed == IF raw = <<>> THEN NoAction ELSE JsonParse(raw)
  IN  IF parsed.entity \in Entities /\ parsed.intent \in Intents
      THEN parsed
      ELSE NoAction

\* response.match(/<fence>symptomsync-action\s*([\s\S]*?)<fence>/): group 1, or "".
FencedCandidate(response) ==
  LET Closes(k) == response[k] \in {FenceClose, FenceOpen}
      opens == {i \in 1..Len(response) :
                  /\ response[i] = FenceOpen
                  /\ \E j \in (i + 1)..Len(response) : Closes(j)}
      i == FirstIndex(opens)
      j == FirstIndex({k \in (i + 1)..Len(response) : Closes(k)})
  IN  IF i = 0 THEN <<>> ELSE TrimLeft(SubSeq(response, i + 1, j - 1))

\* response.match(/\{[\s\S]*\}/): from the first opening brace to the last
\* closing one.
BareCandidate(response) ==
  LET first == FirstIndex({i \in 1..Len(response) :
                             response[i] \in OpenBraceTokens})
      closes == {i \in 1..Len(response) :
                   response[i] \in CloseBraceTokens /\ i >= first}
      last == CHOOSE i \in closes : \A j \in closes : j <= i
  IN  IF first = 0 \/ closes = {} THEN <<>> ELSE SubSeq(response, first, last)

parseAction(response) ==
  IF tryParse(FencedCandidate(response)) # NoAction
  THEN tryParse(FencedCandidate(response))
  ELSE tryParse(BareCandidate(response))

(* -------------------- deriveHealthLogFromInput (user text) ---------------- *)

\* A deriver that is triggered by every message.
MentionsAnything(lower) == TRUE

\* lower.includes("log") || lower.includes("record"), token by token.
MentionsLog(lower) ==
  \E i \in 1..Len(lower) : lower[i] \in {"log", "record", "logged", "blog"}

\* The 1-2 digit numbers standing as words of their own in a token.
SmallNumbers(tok) ==
  CASE tok = "7" -> <<7>>
    [] tok = "8" -> <<8>>
    [] tok = "12" -> <<12>>
    [] tok = "5:00 PM" -> <<5, 0>>
    [] tok = "8:00 AM" -> <<8, 0>>
    [] OTHER -> <<>>

RECURSIVE NumbersIn(_)
NumbersIn(text) ==
  IF text = <<>> THEN <<>> ELSE SmallNumbers(Head(text)) \o NumbersIn(Tail(text))

\* input.match(/\b(10|[1-9])\b/): the first number from 1 to 10, or 0.
SeverityMatch(text) ==
  LET nums == NumbersIn(text)
      hits == {i \in 1..Len(nums) : nums[i] \in 1..10}
  IN  IF hits = {} THEN 0 ELSE nums[FirstIndex(hits)]

\* p.match(/today|tomorrow|tmr|yesterday|\d{4}-\d{2}-\d{2}|am|pm|:/i)
LooksLikeDate(part) ==
  \E i \in 1..Len(part) :
    LowerToken(part[i]) \in
      {"today", "tonight", "tomorrow", "tmr", "yesterday", "5:00 PM", "8:00 AM",
       "2025-03-10T08:00:00Z", "2025-03-11T09:00:00Z", "am", "pm"}

\* input.split(","): the texts between the commas.
RECURSIVE Split(_, _)
Split(text, current) ==
  IF text = <<>> THEN <<current>>
  ELSE IF Head(text) = "," THEN <<current>> \o Split(Tail(text), <<>>)
  ELSE Split(Tail(text), Append(current, Head(text)))

RECURSIVE NonEmpty(_)
NonEmpty(parts) ==
  IF parts = <<>> THEN <<>>
  ELSE IF Head(parts) = <<>> THEN NonEmpty(Tail(parts))
  ELSE <<Head(parts)>> \o NonEmpty(Tail(parts))

\* input.split(",").map((p) => p.trim()).filter(Boolean)
Parts(input) ==
  LET raw == Split(input, <<>>)
  IN  NonEmpty([i \in 1..Len(raw) |-> trim(raw[i])])

\* input.split(" ")[0]
FirstWord(input) ==
  IF input = <<>> \/ Head(input) = " " THEN <<>> ELSE <<Head(input)>>

RECURSIVE Join(_)
Join(parts) ==
  IF parts = <<>> THEN <<>>
  ELSE IF Len(parts) = 1 THEN Head(parts)
  ELSE Head(parts) \o <<",", " ">> \o Join(Tail(parts))

RECURSIVE Keep(_, _)
Keep(parts, dropped) ==
  IF parts = <<>> THEN <<>>
  ELSE IF Head(parts) \in dropped THEN Keep(Tail(parts), dropped)
  ELSE <<Head(parts)>> \o Keep(Tail(parts), dropped)

\* String(n) of a matched severity.
DigitText(n) == <<ToString(n)>>

deriveHealthLogFromInput(input) ==
  LET lower == toLowerCase(input)
      parts == Parts(input)
      symptomCandidate == IF parts # <<>> THEN parts[1] ELSE FirstWord(input)
      severity == SeverityMatch(input)
      dateHits == {i \in 1..Len(parts) : LooksLikeDate(parts[i])}
      datePart == IF dateHits = {} THEN <<>> ELSE parts[FirstIndex(dateHits)]
      notesParts ==
        Keep(Tail(parts),
             (IF severity = 0 THEN {} ELSE {DigitText(severity)})
               \cup (IF datePart = <<>> THEN {} ELSE {datePart}))
  IN  IF ~MentionsLog(lower) /\ NumbersIn(lower) = <<>> THEN NoAction
      ELSE IF symptomCandidate = <<>> THEN NoAction
      ELSE ActionPayload("health_log", "create",
             [EmptyBag EXCEPT
                !["symptom_type"] = Str(symptomCandidate),
                !["severity"] = IF severity = 0 THEN Undefined ELSE Num(severity),
                !["start_date"] = IF datePart = <<>> THEN Undefined ELSE Str(datePart),
                !["notes"] = IF notesParts = <<>> THEN Undefined
                             ELSE Str(Join(notesParts))])

(* ------------------------------- the page -------------------------------- *)

VARIABLES
  messages,        \* useState<ChatMessage[]>([])
  userInput,       \* useState("")
  loading,         \* useState(false)
  pendingAction,   \* useState<ActionPayload | null>(null): the slot
  applyingAction,  \* useState(false)
  aiError,         \* useState<string | null>(null)
  latestMeds,      \* cached snapshot of the medication reminders
  latestAppts,     \* cached snapshot of the appointment reminders
  latestLogs,      \* cached snapshot of the health logs
  db,              \* the tables behind the persistence collaborators
  created,         \* rows each table has ever been given (the next id)
  send,            \* the handleSend invocation in flight and what it captured
  apply,           \* the applyAction invocation in flight and what it captured
  applyObs,        \* collaborator calls of the current or latest applyAction
  sendObs,         \* notifications of the current or latest handleSend
  slotWrites,      \* successful writes made for the action now in the slot
  gestures,        \* gestures of the user so far
  now,             \* the clock new Date() reads
  probe,           \* one call of a function of the page, outside any handler
  userId,          \* useState<string | null>(null): set by the auth effect
  storedChat,      \* the chat localStorage held when the page was opened
  geminiModelCursor, \* let geminiModelCursor = 0 of the LLM chat collaborator
  chat             \* the chatWithHealthAI call in flight, and what it has tried

vars ==
  <<messages, userInput, loading, pendingAction, applyingAction, aiError,
    latestMeds, latestAppts, latestLogs, db, created, send, apply, applyObs,
    sendObs, slotWrites, gestures, now, probe, userId, storedChat,
    geminiModelCursor, chat>>

\* What a collaborator throws: an Error with a message, or a plain object.
Thrown == {[isError |-> TRUE, message |-> "Request failed"]}
PlainObject == [isError |-> FALSE, message |-> ""]
RateLimit == [isError |-> TRUE, message |-> "429 Too Many Requests"]
NotLoggedIn == [isError |-> TRUE, message |-> "User not logged in"]
ErrorOf(message) == [isError |-> TRUE, message |-> message]

\* What the user may type into the message box.
UserInputs ==
  {<<"hello">>,
   <<"Headache", ",", " ", "severity", " ", "7">>}

\* What the LLM collaborator may answer.
Fenced(object) == <<"Sure", " ", FenceOpen, " ", object, " ", FenceClose>>
Replies ==
  {<<"Okay">>}
    \cup {Fenced(object) :
            object \in {"apptCreate", "apptCreateNoTime", "apptUpdateByName",
                        "apptDeleteById"}}

ChatMessage(role, text) == [role |-> role, text |-> text]

SendIdle ==
  [pc |-> "idle", userInput |-> <<>>, messages |-> <<>>, newHistory |-> <<>>]
ApplyIdle ==
  [pc |-> "idle", action |-> NoAction, latest |-> <<>>, call |-> NoCall,
   staged |-> FALSE]

\* What one applyAction did: the action it took from the slot, the listAll
\* calls of its resolver, the write calls it issued, how many of them
\* succeeded, its notifications, how it ended and in which step it threw.
NoObs ==
  [reads |-> 0, calls |-> 0, done |-> 0, toasts |-> <<>>,
   outcome |-> "none", threwIn |-> ""]

Toast(kind, message) == [kind |-> kind, message |-> message]

\* The rows the tables hold when the page is opened.
SeededDb ==
  [appointment |-> <<Record(<<"1">>, Str(<<"Dentist">>), StartOfDay(12) + 8)>>,
   medication |-> <<Record(<<"1">>, Str(<<"Aspirin">>), StartOfDay(12) + 8)>>,
   health_log |-> <<Record(<<"1">>, Str(<<"Headache">>), StartOfDay(11) + 8)>>]
EmptyDb == [appointment |-> <<>>, medication |-> <<>>, health_log |-> <<>>]

\* No function is being called outside the handlers.
NoProbe == [fn |-> "none"]

\* The page as its useState calls construct it.
PageInit ==
  /\ messages = <<>>
  /\ userInput = <<>>
  /\ loading = FALSE
  /\ pendingAction = NoAction
  /\ applyingAction = FALSE
  /\ aiError = ""
  /\ latestMeds = <<>>
  /\ latestAppts = <<>>
  /\ latestLogs = <<>>
  /\ db \in {SeededDb, EmptyDb}
  /\ created = [e \in Entities |-> Len(db[e])]
  /\ send = SendIdle
  /\ apply = ApplyIdle
  /\ applyObs = NoObs
  /\ sendObs = <<>>
  /\ slotWrites = 0
  /\ gestures = 0
  /\ now = StartOfDay(10) + 9

\* The auth effect has answered and found no chat in localStorage. (The
\* effect that saves the messages writes localStorage only; nothing reads it
\* again before the page is opened anew.)
SignedIn == userId = "user" /\ storedChat = <<>>

\* let lastError: unknown = null
NoError == [isError |-> FALSE, message |-> "null"]

\* No call of the LLM chat collaborator has been made, or none is followed.
NoChat ==
  [pc |-> "idle", modelsToTry |-> <<>>, startIndex |-> 0, orderedModels |-> <<>>,
   i |-> 0, lastError |-> NoError, before |-> 0, tried |-> <<>>,
   errors |-> <<>>, outcome |-> "none", thrown |-> NoError, calls |-> 0]

CollaboratorIdle == geminiModelCursor = 0 /\ chat = NoChat

Init == PageInit /\ probe = NoProbe /\ SignedIn /\ CollaboratorIdle

\* What no handler of the page changes.
ambient == <<now, probe, userId, storedChat, geminiModelCursor, chat>>
snapshots == <<latestMeds, latestAppts, latestLogs>>
store == <<db, created>>
sendSide == <<messages, userInput, loading, aiError, send, sendObs>>
applySide == <<applyingAction, apply, applyObs>>

\* The user makes one more gesture.
Gesture == gestures < MaxGestures /\ gestures' = gestures + 1

\* The slot is given up (replaced or dismissed): an applyAction in flight
\* goes on with the action it captured, which is no longer the staged one.
Detached(invocation) == [invocation EXCEPT !.staged = FALSE]

(* ------------------------------ handleSend -------------------------------- *)

\* onChange of the message box: the user types a text into the empty box
SetUserInputOf(texts) ==
  /\ userInput = <<>>
  /\ \E text \in texts : userInput' = text
  /\ UNCHANGED <<messages, loading, aiError, send, sendObs, pendingAction,
                 applySide, snapshots, store, slotWrites, gestures, ambient>>

SetUserInput == SetUserInputOf(UserInputs)

\* if (!userInput.trim() || loading) return
SendEnabled(input, busy) == trim(input) # <<>> /\ ~busy

\* handleSend up to its first await: the guard, setLoading(true), getUser()
SendStart ==
  /\ SendEnabled(userInput, loading)
  /\ Gesture
  /\ loading' = TRUE
  /\ send' = [SendIdle EXCEPT
                !.pc = "getUser", !.userInput = userInput, !.messages = messages]
  /\ sendObs' = <<>>
  /\ UNCHANGED <<messages, userInput, aiError, pendingAction, applySide,
                 snapshots, store, slotWrites, ambient>>

\* The message the catch block of handleSend shows.
friendly(err) ==
  IF ~err.isError THEN "AI is unavailable. Please try again soon."
  ELSE IF err = RateLimit
  THEN "AI hit a rate limit. Please retry in a few seconds or check quota."
  ELSE err.message

\* A catch block without the finally: the loading flag stays set.
SendCatchNoFinally(err) ==
  /\ aiError' = friendly(err)
  /\ sendObs' = Append(sendObs, Toast("error", friendly(err)))
  /\ loading' = loading
  /\ send' = SendIdle

\* The catch and finally blocks of handleSend.
SendCatch(err) ==
  /\ aiError' = friendly(err)
  /\ sendObs' = Append(sendObs, Toast("error", friendly(err)))
  /\ loading' = FALSE
  /\ send' = SendIdle

\* supabase.auth.getUser() answers; with a user the five reads are issued
SendGetUser ==
  /\ send.pc = "getUser"
  /\ \/ /\ send' = [send EXCEPT !.pc = "reads"]
        /\ UNCHANGED <<loading, aiError, sendObs>>
     \/ SendCatch(NotLoggedIn)
  /\ UNCHANGED <<messages, userInput, pendingAction, applySide, snapshots,
                 store, slotWrites, gestures, ambient>>

\* updatedMessages.map(...): each message as a history entry of the LLM.
MappedHistory(updatedMessages) ==
  [k \in 1..Len(updatedMessages) |->
     [role |-> updatedMessages[k].role, parts |-> <<updatedMessages[k].text>>]]

\* A history handed over as mapped.
HistoryAsMapped(updatedMessages, input) == MappedHistory(updatedMessages)

\* newHistory: the mapped messages, or, when they are none or do not begin
\* with the user, the single entry of the message being sent.
HistoryFor(updatedMessages, input) ==
  LET newHistory == MappedHistory(updatedMessages)
  IN  IF Len(newHistory) = 0 \/ newHistory[1].role # "user"
      THEN <<[role |-> "user", parts |-> <<input>>]>>
      ELSE newHistory

\* Promise.all of the reads answers: the snapshots are overwritten, the
\* user's message is appended to the captured messages, the LLM is called
\* with the history
SendReads ==
  /\ send.pc = "reads"
  /\ \/ /\ latestMeds' = listAll(db["medication"])
        /\ latestAppts' = listAll(db["appointment"])
        /\ latestLogs' = listAll(db["health_log"])
        /\ messages' = Append(send.messages, ChatMessage("user", send.userInput))
        /\ send' = [send EXCEPT
                      !.pc = "chat",
                      !.newHistory =
                        HistoryFor(Append(send.messages,
                                          ChatMessage("user", send.userInput)),
                                   send.userInput)]
        /\ UNCHANGED <<loading, aiError, sendObs>>
     \/ /\ SendCatch(PlainObject)
        /\ UNCHANGED <<messages, snapshots>>
  /\ UNCHANGED <<userInput, pendingAction, applySide, store, slotWrites,
                 gestures, ambient>>

\* A send that asks the deriver first and the parser only after it.
StagedDerivedFirst(aiResponse, input) ==
  IF deriveHealthLogFromInput(input) # NoAction
  THEN deriveHealthLogFromInput(input)
  ELSE parseAction(aiResponse)

\* The action handleSend stages for a reply: the parsed one, else the derived.
StagedFor(aiResponse, input) ==
  IF parseAction(aiResponse) # NoAction THEN parseAction(aiResponse)
  ELSE deriveHealthLogFromInput(input)

\* A staging that keeps the action already in the slot.
StageIfEmpty(slot, next) == IF slot # NoAction THEN slot ELSE next

\* setPendingAction(next) when handleSend found an action; else the slot stays.
Stage(slot, next) == IF next # NoAction THEN next ELSE slot

\* chatWithHealthAI answers with one of replies: stage, append the reply,
\* clear the box
SendChatOf(replies) ==
  /\ send.pc = "chat"
  /\ \/ \E aiResponse \in replies :
          LET next == StagedFor(aiResponse, send.userInput) IN
          /\ aiError' = ""
          /\ pendingAction' = Stage(pendingAction, next)
          /\ slotWrites' = IF next # NoAction THEN 0 ELSE slotWrites
          /\ apply' = IF next # NoAction THEN Detached(apply) ELSE apply
          /\ messages' = Append(messages, ChatMessage("model", aiResponse))
          /\ userInput' = <<>>
          /\ loading' = FALSE
          /\ send' = SendIdle
          /\ UNCHANGED sendObs
     \/ /\ SendCatch(RateLimit)
        /\ UNCHANGED <<messages, userInput, pendingAction, slotWrites, apply>>
  /\ UNCHANGED <<applyingAction, applyObs, snapshots, store, gestures, ambient>>

SendChat == SendChatOf(Replies)

\* handleClear
handleClear ==
  /\ Len(messages) > 0
  /\ Gesture
  /\ messages' = <<>>
  /\ UNCHANGED <<userInput, loading, aiError, send, sendObs, pendingAction,
                 applySide, snapshots, store, slotWrites, ambient>>

(* ------------------------------ applyAction ------------------------------- *)

\* The cached snapshot of an entity, as the closure of applyAction reads it.
LatestOf(entity) ==
  CASE entity = "appointment" -> latestAppts
    [] entity = "medication" -> latestMeds
    [] entity = "health_log" -> latestLogs
    [] OTHER -> <<>>

\* An applyAction that runs on an empty slot too.
ApplyUnguarded(slot, applying) == ~applying

\* The Apply change button is disabled while applyingAction; applyAction
\* itself returns at once on an empty slot.
ApplyEnabled(slot, applying) == slot # NoAction /\ ~applying

\* applyAction up to its first await: setApplyingAction(true), getUser()
ApplyStart ==
  /\ ApplyEnabled(pendingAction, applyingAction)
  /\ Gesture
  /\ applyingAction' = TRUE
  /\ apply' = [pc |-> "getUser", action |-> pendingAction,
               latest |-> LatestOf(pendingAction.entity),
               call |-> NoCall, staged |-> TRUE]
  /\ applyObs' = [NoObs EXCEPT !.outcome = "running"]
  /\ UNCHANGED <<sendSide, pendingAction, snapshots, store, slotWrites, ambient>>

\* A catch block that shows no text.
ApplyMessageBlank(err) == ""

\* err instanceof Error ? err.message : "Failed to apply AI suggestion."
ApplyMessage(err) ==
  IF err.isError THEN err.message ELSE "Failed to apply AI suggestion."

\* A catch block that clears the slot.
SlotClearedOnCatch(slot) == NoAction

\* The slot after an applyAction that threw: the catch block leaves it alone.
SlotAfterCatch(slot) == slot

\* The catch and finally blocks of applyAction; step is where it threw.
ApplyCatch(err, step) ==
  /\ applyObs' = [applyObs EXCEPT
                    !.toasts = Append(@, Toast("error", ApplyMessage(err))),
                    !.outcome = "failed",
                    !.threwIn = step]
  /\ pendingAction' = SlotAfterCatch(pendingAction)
  /\ applyingAction' = FALSE
  /\ apply' = ApplyIdle

\* Resolution on the list to search, validation, then the write call.
ApplyProceed(list) ==
  LET plan == ApplyBranch(apply.action, list, now) IN
  IF plan.error # ""
  THEN ApplyCatch(ErrorOf(plan.error), "validation")
  ELSE /\ apply' = [apply EXCEPT !.pc = "write", !.call = plan.call]
       /\ applyObs' = [applyObs EXCEPT !.calls = @ + 1]
       /\ UNCHANGED <<pendingAction, applyingAction>>

\* getUser() answers; a create validates and writes, an update or delete
\* resolves its id first, fetching the list when the resolver needs it
ApplyGetUser ==
  /\ apply.pc = "getUser"
  /\ \/ ApplyCatch(NotLoggedIn, "getUser")
     \/ /\ apply.action.intent # "create"
        /\ NeedsListAll(apply.latest, apply.action.data)
        /\ apply' = [apply EXCEPT !.pc = "resolve"]
        /\ applyObs' = [applyObs EXCEPT !.reads = @ + 1]
        /\ UNCHANGED <<pendingAction, applyingAction>>
     \/ /\ ~(apply.action.intent # "create"
             /\ NeedsListAll(apply.latest, apply.action.data))
        /\ ApplyProceed(apply.latest)
  /\ UNCHANGED <<sendSide, snapshots, store, slotWrites, gestures, ambient>>

\* listAll of the resolver answers
ApplyResolve ==
  /\ apply.pc = "resolve"
  /\ \/ ApplyProceed(SearchList(apply.latest, listAll(db[apply.action.entity])))
     \/ \E err \in Thrown : ApplyCatch(err, "resolve")
  /\ UNCHANGED <<sendSide, snapshots, store, slotWrites, gestures, ambient>>

\* toast.success of the branch
SuccessMessage(call) ==
  CASE call.entity = "appointment" /\ call.op = "create" -> "Appointment created."
    [] call.entity = "appointment" /\ call.op = "update" -> "Appointment updated."
    [] call.entity = "appointment" /\ call.op = "delete" -> "Appointment deleted."
    [] call.entity = "medication" /\ call.op = "create" -> "Medication reminder created."
    [] call.entity = "medication" /\ call.op = "update" -> "Medication reminder updated."
    [] call.entity = "medication" /\ call.op = "delete" -> "Medication reminder deleted."
    [] call.entity = "health_log" /\ call.op = "create" -> "Health log created."
    [] call.entity = "health_log" /\ call.op = "update" -> "Health log updated."
    [] call.entity = "health_log" /\ call.op = "delete" -> "Health log deleted."
    [] OTHER -> ""

\* The write collaborator answers; after a success the list is fetched again
ApplyWrite ==
  /\ apply.pc = "write"
  /\ LET e == apply.call.entity IN
     \/ /\ RowExists(db[e], apply.call)
        /\ db' = [db EXCEPT ![e] = DbApply(@, apply.call, <<ToString(created[e] + 1)>>)]
        /\ created' = [created EXCEPT ![e] = IF apply.call.op = "create" THEN @ + 1 ELSE @]
        /\ slotWrites' = IF apply.staged THEN slotWrites + 1 ELSE slotWrites
        /\ apply' = [apply EXCEPT !.pc = "refresh"]
        /\ applyObs' = [applyObs EXCEPT
                          !.done = @ + 1,
                          !.toasts = Append(@, Toast("success", SuccessMessage(apply.call)))]
        /\ UNCHANGED <<pendingAction, applyingAction>>
     \/ /\ ~RowExists(db[e], apply.call)
        /\ ApplyCatch(ErrorOf("JSON object requested, multiple (or no) rows returned"), "write")
        /\ UNCHANGED <<db, created, slotWrites>>
     \/ /\ \E err \in Thrown : ApplyCatch(err, "write")
        /\ UNCHANGED <<db, created, slotWrites>>
  /\ UNCHANGED <<sendSide, snapshots, gestures, ambient>>

\* The slot after applyAction ran to its end: setPendingAction(null).
SlotAfterApply(slot) == NoAction

\* A branch that leaves the cached snapshot as it was.
NotRefreshed(old, table) == old

\* const refreshed = await listAll(user.id); setLatest(refreshed)
Refreshed(old, table) == listAll(table)

\* The re-fetch answers: the snapshot of the entity is overwritten and the
\* slot is cleared
ApplyRefresh ==
  /\ apply.pc = "refresh"
  /\ LET e == apply.action.entity IN
     \/ /\ latestAppts' = IF e = "appointment" THEN Refreshed(latestAppts, db[e])
                           ELSE latestAppts
        /\ latestMeds' = IF e = "medication" THEN Refreshed(latestMeds, db[e])
                          ELSE latestMeds
        /\ latestLogs' = IF e = "health_log" THEN Refreshed(latestLogs, db[e])
                          ELSE latestLogs
        /\ pendingAction' = SlotAfterApply(pendingAction)
        /\ slotWrites' = 0
        /\ applyingAction' = FALSE
        /\ apply' = ApplyIdle
        /\ applyObs' = [applyObs EXCEPT !.outcome = "applied"]
     \/ /\ \E err \in Thrown : ApplyCatch(err, "refresh")
        /\ UNCHANGED <<snapshots, slotWrites>>
  /\ UNCHANGED <<sendSide, store, gestures, ambient>>

\* The Dismiss button: setPendingAction(null)
Dismiss ==
  /\ pendingAction # NoAction
  /\ Gesture
  /\ pendingAction' = NoAction
  /\ slotWrites' = 0
  /\ apply' = Detached(apply)
  /\ UNCHANGED <<sendSide, applyingAction, applyObs, snapshots, store, ambient>>

\* A Cancel button that clears the conversation too.
CancelClearingChat ==
  /\ pendingAction # NoAction
  /\ Gesture
  /\ pendingAction' = NoAction
  /\ slotWrites' = 0
  /\ apply' = Detached(apply)
  /\ messages' = <<>>
  /\ UNCHANGED <<userInput, loading, aiError, send, sendObs, applyingAction,
                 applyObs, snapshots, store, ambient>>

\* The Cancel button: setPendingAction(null)
Cancel ==
  /\ pendingAction # NoAction
  /\ Gesture
  /\ pendingAction' = NoAction
  /\ slotWrites' = 0
  /\ apply' = Detached(apply)
  /\ UNCHANGED <<sendSide, applyingAction, applyObs, snapshots, store, ambient>>

Next ==
  \/ SetUserInput
  \/ SendStart
  \/ SendGetUser
  \/ SendReads
  \/ SendChat
  \/ handleClear
  \/ ApplyStart
  \/ ApplyGetUser
  \/ ApplyResolve
  \/ ApplyWrite
  \/ ApplyRefresh
  \/ Dismiss
  \/ Cancel

Spec == Init /\ [][Next]_vars

(* --------------------------- a one-turn session --------------------------- *)
\* The user types one message only; the LLM may answer with any object of
\* JsonObjects, so that every branch of applyAction is reviewed and applied.

MatrixReplies == {<<"Okay">>} \cup {Fenced(object) : object \in DOMAIN JsonObjects}

\* The first message may also be a symptom, a severity and a date between
\* commas, the severity as a phrase or as the number alone.
FirstMessages ==
  UserInputs
    \cup {<<"Headache", ",", " ", "severity", " ", "7", ",", " ",
            "today", " ", "5:00 PM">>,
          <<"Headache", ",", " ", "7", ",", " ", "today", " ", "5:00 PM">>}

TypeFirstMessage == messages = <<>> /\ SetUserInputOf(FirstMessages)

SendChatMatrix == SendChatOf(MatrixReplies)

NextOneTurn ==
  \/ TypeFirstMessage
  \/ SendStart
  \/ SendGetUser
  \/ SendReads
  \/ SendChatMatrix
  \/ ApplyStart
  \/ ApplyGetUser
  \/ ApplyResolve
  \/ ApplyWrite
  \/ ApplyRefresh
  \/ Dismiss
  \/ Cancel

SpecOneTurn == Init /\ [][NextOneTurn]_vars

(* ------------------------- the chat from its opening ---------------------- *)
\* The page is opened before the auth effect has answered; localStorage may
\* hold the chat an earlier session left, which the load effect restores.
\* Only the handlers that touch the messages are followed.

StoredChats ==
  {<<>>,
   <<ChatMessage("user", <<"hello">>), ChatMessage("model", <<"Okay">>)>>,
   <<ChatMessage("model", <<"Okay">>)>>}

InitSession ==
  /\ PageInit
  /\ db = EmptyDb
  /\ probe = NoProbe
  /\ userId = "null"
  /\ storedChat \in StoredChats
  /\ CollaboratorIdle

\* checkUserAuth answers with a user: setUserId, then the effect on userId
\* does setMessages(JSON.parse(storedChat)), or setMessages([]) with nothing stored
LoadMessages ==
  /\ userId = "null"
  /\ userId' = "user"
  /\ messages' = storedChat
  /\ UNCHANGED <<userInput, loading, aiError, send, sendObs, pendingAction,
                 applySide, snapshots, store, slotWrites, gestures, now, probe,
                 storedChat, geminiModelCursor, chat>>

SessionReplies == {<<"Okay">>, Fenced("apptCreate")}

SendChatSession == SendChatOf(SessionReplies)

NextSession ==
  \/ LoadMessages
  \/ SetUserInput
  \/ SendStart
  \/ SendGetUser
  \/ SendReads
  \/ SendChatSession
  \/ handleClear

SpecSession == InitSession /\ [][NextSession]_vars

(* ----------------------- the pure functions, applied ---------------------- *)
\* parseAction and the resolvers read nothing of the page but their
\* arguments: each is applied once to an argument drawn from a bounded set.

MaxReplyTokens == 3
MaxProse == 2
MaxSnapshot == 2
MaxWords == 3

RECURSIVE TextsUpTo(_, _)
TextsUpTo(tokens, n) ==
  IF n = 0 THEN {<<>>}
  ELSE LET shorter == TextsUpTo(tokens, n - 1)
       IN  shorter \cup {Append(text, tok) : text \in shorter, tok \in tokens}

\* What an assistant reply is made of: words, white space, fences, objects.
ReplyTokens ==
  {"Sure", " ", FenceOpen, FenceClose, "apptCreate", "unknownEntity",
   "noData", "noIntent", "noEntity", "{oops}"}

ProseTokens == {"Sure", FenceOpen, FenceClose, "medCreate", "{oops}"}

\* The prose that may follow the action block.
Closings == {<<>>} \cup {<<tok>> : tok \in ProseTokens}

\* The payloads of the wire format: known entity, known intent, a data bag.
WellFormed(payload) ==
  /\ payload.entity \in Entities
  /\ payload.intent \in Intents
  /\ payload.data # NoData

WirePayloads ==
  {JsonObjects[object] :
     object \in {"apptCreate", "medUpdateDosage", "logCreateNoSymptom"}}
    \cup {FenceNotePayload}

\* JSON.stringify(payload): the JSON text that reads back as the object
\* (members that are undefined are not written, and read back as undefined).
JsonStringify(payload) ==
  IF payload = FenceNotePayload
  THEN FenceNoteText
  ELSE <<CHOOSE text \in DOMAIN JsonTexts : JsonTexts[text] = payload>>

\* The wire format: the tagged fence, the JSON on lines of its own, the fence.
WireFormat(payload) ==
  <<FenceOpen, " ">> \o JsonStringify(payload) \o <<" ", FenceClose>>

ParseProbe(response) ==
  [fn |-> "parseAction", arg |-> response, done |-> FALSE, out |-> NoAction]

RoundTripProbe(payload, before, after) ==
  [fn |-> "roundTrip", payload |-> payload, before |-> before, after |-> after,
   arg |-> before \o WireFormat(payload) \o after,
   done |-> FALSE, out |-> NoAction]

\* Records a list may hold: a create accepts any string as the name, the
\* empty one too; only a health log may lack its symptom_type.
NamedRecords ==
  {Record(<<"1">>, Str(<<"Dentist">>), StartOfDay(12) + 8),
   Record(<<"2">>, Str(<<"DENTIST">>), StartOfDay(13) + 9),
   Record(<<"3">>, Str(<<"Checkup">>), StartOfDay(12) + 8),
   Record(<<"5">>, Str(<<>>), StartOfDay(14) + 8)}

RecordsOf(entity) ==
  IF entity = "health_log"
  THEN {r \in NamedRecords : r.name.s # <<>>}
         \cup {Record(<<"4">>, Null, StartOfDay(13) + 9)}
  ELSE NamedRecords

\* The lists of at most n records, no record twice.
RECURSIVE ListsUpTo(_, _)
ListsUpTo(records, n) ==
  IF n = 0 THEN {<<>>}
  ELSE LET shorter == ListsUpTo(records, n - 1)
           Fresh(list) == {r \in records : \A i \in 1..Len(list) : list[i] # r}
       IN  shorter
             \cup UNION {{Append(list, r) : r \in Fresh(list)} : list \in shorter}

\* What listAll may answer while the snapshot holds something else.
StoredLists ==
  {<<>>,
   <<Record(<<"3">>, Str(<<"Checkup">>), StartOfDay(12) + 8)>>,
   <<Record(<<"2">>, Str(<<"DENTIST">>), StartOfDay(13) + 9),
     Record(<<"1">>, Str(<<"Dentist">>), StartOfDay(12) + 8)>>}

NameKeyFor(entity) ==
  CASE entity = "appointment" -> "appointment_name"
    [] entity = "medication" -> "medication_name"
    [] OTHER -> "symptom_type"

DateKeyFor(entity) ==
  CASE entity = "appointment" -> "date"
    [] entity = "medication" -> "reminder_time"
    [] OTHER -> "start_date"

\* The references a data bag may carry: an id, a name, a date or time.
ReferenceIds == {Undefined, Str(<<"9">>), Num(1)}
ReferenceNames ==
  {Undefined, Str(<<"dentist">>), Str(<<"checkup">>), Str(<<>>), Num(7)}
ReferenceDates ==
  {Undefined, Str(<<"2025-03-10T08:00:00Z">>), Str(<<"2025-03-11T09:00:00Z">>),
   Str(<<"Tomorrow">>)}

Reference(entity, id, name, date) ==
  [f \in Fields |->
     IF f = "id" THEN id
     ELSE IF f = NameKeyFor(entity) THEN name
     ELSE IF f = DateKeyFor(entity) THEN date
     ELSE Undefined]

ResolveProbe(entity, latest, stored, data) ==
  [fn |-> "resolve", entity |-> entity, latest |-> latest, stored |-> stored,
   data |-> data, done |-> FALSE, out |-> Undefined, listAllCalls |-> 0]

ParseProbes(n) ==
  {ParseProbe(response) : response \in TextsUpTo(ReplyTokens, n)}

RoundTripProbes(n) ==
  {RoundTripProbe(payload, before, after) :
     payload \in WirePayloads,
     before \in TextsUpTo(ProseTokens, n),
     after \in Closings}

ResolveProbes(entity, n) ==
  {ResolveProbe(entity, latest, stored, Reference(entity, id, name, date)) :
     latest \in ListsUpTo(RecordsOf(entity), n),
     stored \in StoredLists,
     id \in ReferenceIds,
     name \in ReferenceNames,
     date \in ReferenceDates}

\* What parseDateTime may be given: nothing, a value that is no string, an
\* empty or blank string, a relative word alone or followed by separators
\* and a time or something else, an absolute date-time, a time alone.
RelativeWords == {"today", "Today", "tonight", "tomorrow", "Tomorrow", "tmr", "yesterday"}
Separators == {<<>>, <<" ">>, <<",", " ">>}
TimeTexts == {<<"5:00 PM">>, <<"8:00 AM">>}
DateTexts ==
  {<<>>, <<" ">>, <<"2025-03-10T08:00:00Z">>, <<"soon">>}
    \cup TimeTexts
    \cup {<<word>> \o sep \o rest :
            word \in RelativeWords,
            sep \in Separators,
            rest \in TimeTexts \cup {<<>>, <<" ">>, <<"soon">>}}
DateValues == {Undefined, Null, Num(5)} \cup {Str(text) : text \in DateTexts}

\* What a message of the user is made of.
InputTokens ==
  {"hello", "Headache", "log", "blog", "record", "7", "12", ",", " ", "today"}

DeriveProbe(input) ==
  [fn |-> "deriveHealthLogFromInput", arg |-> input, done |-> FALSE,
   out |-> NoAction]

DeriveProbes(n) == {DeriveProbe(input) : input \in TextsUpTo(InputTokens, n)}

DateProbe(value) ==
  [fn |-> "parseDateTime", arg |-> value, done |-> FALSE, out |-> NoInstant]

InitFn ==
  /\ PageInit
  /\ SignedIn
  /\ CollaboratorIdle
  /\ db = EmptyDb
  /\ probe \in ParseProbes(MaxReplyTokens)
               \cup RoundTripProbes(MaxProse)
               \cup UNION {ResolveProbes(entity, MaxSnapshot) : entity \in Entities}
               \cup {DateProbe(value) : value \in DateValues}
               \cup DeriveProbes(MaxWords)

page == <<messages, userInput, loading, pendingAction, applyingAction, aiError,
          latestMeds, latestAppts, latestLogs, db, created, send, apply,
          applyObs, sendObs, slotWrites, gestures, now, userId, storedChat,
          geminiModelCursor, chat>>

CallParseAction ==
  /\ probe.fn = "parseAction"
  /\ ~probe.done
  /\ probe' = [probe EXCEPT !.done = TRUE, !.out = parseAction(probe.arg)]
  /\ UNCHANGED page

CallRoundTrip ==
  /\ probe.fn = "roundTrip"
  /\ ~probe.done
  /\ probe' = [probe EXCEPT !.done = TRUE, !.out = parseAction(probe.arg)]
  /\ UNCHANGED page

\* One call of the resolver of the entity kind: it fetches the list itself
\* when NeedsListAll says so, and searches the list SearchList gives.
CallResolver ==
  /\ probe.fn = "resolve"
  /\ ~probe.done
  /\ LET fetch == NeedsListAll(probe.latest, probe.data)
         fetched == IF fetch THEN listAll(probe.stored) ELSE <<>>
         action == ActionPayload(probe.entity, "delete", probe.data)
     IN  probe' =
           [probe EXCEPT
              !.done = TRUE,
              !.listAllCalls = IF fetch THEN 1 ELSE 0,
              !.out = ResolveId(action, SearchList(probe.latest, fetched), now)]
  /\ UNCHANGED page

CallParseDateTime ==
  /\ probe.fn = "parseDateTime"
  /\ ~probe.done
  /\ probe' = [probe EXCEPT !.done = TRUE, !.out = parseDateTime(probe.arg, now)]
  /\ UNCHANGED page

CallDeriveHealthLog ==
  /\ probe.fn = "deriveHealthLogFromInput"
  /\ ~probe.done
  /\ probe' = [probe EXCEPT !.done = TRUE,
                            !.out = deriveHealthLogFromInput(probe.arg)]
  /\ UNCHANGED page

NextFn ==
  \/ CallParseAction
  \/ CallRoundTrip
  \/ CallResolver
  \/ CallParseDateTime
  \/ CallDeriveHealthLog

SpecFn == InitFn /\ [][NextFn]_vars

(* ------------------------- the LLM chat collaborator ---------------------- *)
\* Calls of chatWithHealthAI, one after the other, each followed from the
\* model list it fetched to its return or its throw.

MaxModels == 3
MaxCalls == 2

DEFAULT_GEMINI_MODELS ==
  <<"gemini-2.5-flash-lite", "gemini-2.5-flash", "gemini-2.0-flash",
    "gemini-2.0-flash-001", "gemini-2.0-flash-lite", "gemini-2.0-flash-lite-001">>

\* The names fetchGeminiModels may list; it returns no name twice.
ListedNames ==
  {"gemini-2.5-flash", "gemini-2.0-flash", "gemini-flash-latest",
   "gemini-2.5-flash-lite"}

\* A rotation that leaves the list as it is.
NotRotated(models, startIndex) == models

\* getRotatedModels: the list from startIndex on, then the part before it.
getRotatedModels(models, startIndex) ==
  IF Len(models) = 0 THEN <<>>
  ELSE LET normalizedIndex ==
             ((startIndex % Len(models)) + Len(models)) % Len(models)
       IN  SubSeq(models, normalizedIndex + 1, Len(models))
             \o SubSeq(models, 1, normalizedIndex)

\* What a model may throw: the error of the SDK for that model, or the
\* error of a response without text.
NoText == ErrorOf("Failed to get text response from the AI.")
ModelErrors(modelName) == {ErrorOf(modelName), NoText}

\* if (lastError instanceof Error) throw lastError; else a generic error
Rethrown(lastError) == IF lastError.isError THEN lastError ELSE NoText

\* A cursor that stays where it was.
CursorKept(startIndex, i, length) == startIndex

\* geminiModelCursor = (startIndex + i + 1) % modelsToTry.length
CursorAfter(startIndex, i, length) == (startIndex + i + 1) % length

\* Everything but the cursor and the call of the collaborator.
besidesChat ==
  <<messages, userInput, loading, pendingAction, applyingAction, aiError,
    latestMeds, latestAppts, latestLogs, db, created, send, apply, applyObs,
    sendObs, slotWrites, gestures, now, probe, userId, storedChat>>

\* chatWithHealthAI up to the first sendMessage: the model list is fetched
\* (an empty or failed listing gives the default list) and rotated
ChatFetchModels ==
  /\ chat.pc = "idle"
  /\ chat.calls < MaxCalls
  /\ \E fetched \in ListsUpTo(ListedNames, MaxModels) :
       LET modelsToTry == IF Len(fetched) = 0 THEN DEFAULT_GEMINI_MODELS
                          ELSE fetched
           startIndex == geminiModelCursor % Len(modelsToTry)
       IN  chat' = [NoChat EXCEPT
                      !.pc = "sendMessage",
                      !.modelsToTry = modelsToTry,
                      !.startIndex = startIndex,
                      !.orderedModels = getRotatedModels(modelsToTry, startIndex),
                      !.before = geminiModelCursor,
                      !.calls = chat.calls + 1]
  /\ UNCHANGED <<geminiModelCursor, besidesChat>>

\* sendMessage of orderedModels[i] answers with a text: the cursor moves
\* past the model and the text is returned
ChatAnswer ==
  /\ chat.pc = "sendMessage"
  /\ geminiModelCursor' =
       CursorAfter(chat.startIndex, chat.i, Len(chat.modelsToTry))
  /\ chat' = [chat EXCEPT
                !.pc = "idle",
                !.tried = Append(@, chat.orderedModels[chat.i + 1]),
                !.outcome = "returned"]
  /\ UNCHANGED besidesChat

\* The try of orderedModels[i] throws: the next model is tried, or, after
\* the last one, the error is thrown to the caller
ChatFail ==
  /\ chat.pc = "sendMessage"
  /\ \E err \in ModelErrors(chat.orderedModels[chat.i + 1]) :
       LET last == chat.i + 1 = Len(chat.orderedModels) IN
       chat' = [chat EXCEPT
                  !.pc = IF last THEN "idle" ELSE "sendMessage",
                  !.i = @ + 1,
                  !.lastError = err,
                  !.tried = Append(@, chat.orderedModels[chat.i + 1]),
                  !.errors = Append(@, err),
                  !.outcome = IF last THEN "thrown" ELSE "none",
                  !.thrown = IF last THEN Rethrown(err) ELSE NoError]
  /\ UNCHANGED <<geminiModelCursor, besidesChat>>

NextChat == ChatFetchModels \/ ChatAnswer \/ ChatFail

SpecChat == Init /\ [][NextChat]_vars

(* ------------------------------ properties -------------------------------- *)

\* The last notification of an applyAction, and whether it is an error with text.
LastToast(obs) == obs.toasts[Len(obs.toasts)]
ErrorShown(obs) ==
  /\ Len(obs.toasts) > 0
  /\ LastToast(obs).kind = "error"
  /\ LastToast(obs).message # ""

\* The step in which an applyAction that threw in one of steps ends.
ApplyFailsFrom(steps) == apply.pc \in steps /\ apply'.pc = "idle"

\* The step in which handleSend ends well, having appended the reply.
SendSucceeds ==
  send.pc = "chat" /\ send'.pc = "idle" /\ messages' # messages

\* The action a finished turn staged: messages[k] is the user's text and
\* messages[k + 1] the reply.
StagedInTurn(k) == StagedFor(messages[k + 1].text, messages[k].text)

\* The name and the instant by which the payload refers to a record.
NameKeyOf(entity) ==
  CASE entity = "appointment" -> "appointment_name"
    [] entity = "medication" -> "medication_name"
    [] OTHER -> "symptom_type"
DateKeyOf(entity) ==
  CASE entity = "appointment" -> "date"
    [] entity = "medication" -> "reminder_time"
    [] OTHER -> "start_date"
RefersTo(action, record, today) ==
  LET name == LowerName(action.data[NameKeyOf(action.entity)])
      instant == parseDateTime(
                   StringOrUndefined(action.data[DateKeyOf(action.entity)]), today)
  IN  \/ /\ name # <<>>
         /\ TypeOf(record.name) = "string"
         /\ toLowerCase(record.name.s) = name
      \/ instant # NoInstant /\ record.date = instant

\* The required items of the matrix, for an action whose write call is call.
HasRequired(action, call, today) ==
  CASE action.intent = "create" /\ action.entity = "appointment" ->
         /\ TypeOf(action.data["appointment_name"]) = "string"
         /\ parseDateTime(StringOrUndefined(action.data["date"]), today) # NoInstant
    [] action.intent = "create" /\ action.entity = "medication" ->
         /\ TypeOf(action.data["medication_name"]) = "string"
         /\ parseDateTime(StringOrUndefined(action.data["reminder_time"]), today)
              # NoInstant
    [] action.intent = "create" /\ action.entity = "health_log" ->
         TypeOf(action.data["symptom_type"]) = "string"
    [] action.intent = "update" /\ action.entity \in Entities ->
         call.id # <<>> /\ UpdateKeys(action.entity, action.data, today) # {}
    [] action.intent = "delete" /\ action.entity \in Entities ->
         call.id # <<>>
    [] OTHER -> FALSE

\* C1: a staged action is applied exactly once: at most one write is made
\* for the action in the slot, and once that write has succeeded the slot is
\* cleared when the attempt ends, also when the re-fetch after the write is
\* the step that fails (so a written action is staged only while its attempt
\* is still at the re-fetch).
C1_AppliedExactlyOnce ==
  /\ slotWrites <= 1
  /\ slotWrites = 1 => apply.pc = "refresh"

\* C1: the action in the slot has been written twice.
C1_WrittenTwice == slotWrites = 2 /\ pendingAction # NoAction

\* C2: the store changes and a write call is issued only in a step of an
\* applyAction in flight, never in a step of handleSend, and the call is the
\* one of the action that applyAction took from the slot; an applyAction
\* starts only by a gesture of the user, on the action staged at that moment.
C2_WritesOnlyInUserTriggeredApply ==
  [][/\ (db' # db \/ applyObs'.calls > applyObs.calls) =>
          /\ apply.pc \in {"getUser", "resolve", "write"}
          /\ applyingAction
          /\ send' = send
          /\ messages' = messages
          /\ apply.action # NoAction
          /\ apply'.call.entity = apply.action.entity
          /\ apply'.call.op = apply.action.intent
     /\ (apply.pc = "idle" /\ apply'.pc # "idle") =>
          /\ gestures' = gestures + 1
          /\ pendingAction # NoAction
          /\ apply'.action = pendingAction
          /\ db' = db
    ]_vars

\* C2: a send has staged the action of the fallback deriver and nothing has
\* been written or applied.
C2_DerivedActionOnlyStaged ==
  /\ ~loading
  /\ Len(messages) = 2
  /\ messages[2].text = <<"Okay">>
  /\ pendingAction = deriveHealthLogFromInput(messages[1].text)
  /\ pendingAction.entity = "health_log"
  /\ applyObs = NoObs
  /\ db \in {SeededDb, EmptyDb}

\* C3: the slot holds one payload or none in every state, and when handleSend
\* stages an action the slot holds exactly that action afterwards, whatever
\* was staged before; the staging step issues no write call and leaves the
\* store as it is.
C3_StagingReplacesOutright ==
  /\ [](\/ pendingAction = NoAction
        \/ /\ pendingAction.entity \in Entities
           /\ pendingAction.intent \in Intents)
  /\ [][SendSucceeds =>
          LET next == StagedFor(messages'[Len(messages')].text, send.userInput)
          IN  /\ next # NoAction => pendingAction' = next
              /\ next = NoAction => pendingAction' = pendingAction
              /\ db' = db
              /\ applyObs' = applyObs
              /\ apply'.call = apply.call
      ]_vars

\* C3: two turns in a row staged different actions; the second is in the slot
\* and the store is as it was when the page was opened.
C3_SecondActionReplacedFirst ==
  /\ gestures = 2
  /\ Len(messages) = 4
  /\ StagedInTurn(1) # NoAction
  /\ StagedInTurn(3) # NoAction
  /\ StagedInTurn(3) # StagedInTurn(1)
  /\ pendingAction = StagedInTurn(3)
  /\ db \in {SeededDb, EmptyDb}

\* C4: when the write call of an applyAction throws, the step that ends the
\* attempt leaves the slot as it is (it still holds the applied payload
\* unless the user gave that payload up during the attempt), sets the
\* applying flag to false, shows an error notification and leaves the store
\* unchanged.
C4_WriteFailureKeepsSlot ==
  [][ApplyFailsFrom({"write"}) =>
       /\ pendingAction' = pendingAction
       /\ apply.staged => pendingAction' = apply.action
       /\ applyingAction' = FALSE
       /\ applyObs'.outcome = "failed"
       /\ applyObs'.done = 0
       /\ Len(applyObs'.toasts) = Len(applyObs.toasts) + 1
       /\ ErrorShown(applyObs')
       /\ db' = db
    ]_vars

\* C4: an attempt ended by a throwing write call, the payload still staged.
C4_WriteThrewSlotKept ==
  /\ applyObs.outcome = "failed"
  /\ applyObs.threwIn = "write"
  /\ applyObs.calls = 1
  /\ pendingAction # NoAction
  /\ ~applyingAction
  /\ gestures = 2

\* C5: for every entity and intent, a write call is issued only for a payload
\* that has every required item of the matrix, and an applyAction rejected by
\* validation has issued no write call and has shown an error.
C5_RejectedBeforeAnyWrite ==
  /\ apply.pc \in {"write", "refresh"} =>
       HasRequired(apply.action, apply.call, now)
  /\ applyObs.threwIn = "validation" =>
       /\ applyObs.calls = 0
       /\ applyObs.done = 0
       /\ applyObs.outcome = "failed"
       /\ ErrorShown(applyObs)

\* C5: a medication create without medication_name was rejected with no call.
C5_MedicationWithoutNameRejected ==
  /\ applyObs.threwIn = "validation"
  /\ applyObs.calls = 0
  /\ pendingAction.entity = "medication"
  /\ pendingAction.intent = "create"
  /\ TypeOf(pendingAction.data["medication_name"]) # "string"
  /\ LastToast(applyObs).message = "Medication name is required to create."

\* C6: when an applyAction throws before its write call (no user, a required
\* item missing, the target not found, the resolver's fetch failing), the step
\* that ends the attempt has made no write call, leaves the store and the slot
\* as they are (the slot still holds the applied payload unless the user gave
\* it up during the attempt) and shows an error with a message.
C6_EarlyFailureKeepsSlot ==
  [][ApplyFailsFrom({"getUser", "resolve"}) =>
       /\ applyObs'.calls = 0
       /\ applyObs'.done = 0
       /\ db' = db
       /\ pendingAction' = pendingAction
       /\ apply.staged => pendingAction' = apply.action
       /\ applyingAction' = FALSE
       /\ applyObs'.outcome = "failed"
       /\ Len(applyObs'.toasts) = 1
       /\ ErrorShown(applyObs')
    ]_vars

\* C6: an update whose target was not found failed, the payload still staged.
C6_TargetNotFoundSlotKept ==
  /\ applyObs.outcome = "failed"
  /\ applyObs.threwIn = "validation"
  /\ LastToast(applyObs).message = "Unable to find appointment to update."
  /\ applyObs.calls = 0
  /\ pendingAction.intent = "update"
  /\ ~applyingAction

\* C7: handleSend and applyAction are never in flight at the same time.
C7_FlowsNeverOverlap == ~(loading /\ applyingAction)

\* C8: a successful applyAction has issued exactly one write call, that of
\* the entity and intent of its action; its last step overwrites the cached
\* snapshot of that entity with the list as the store now holds it (the
\* created row in it, the deleted row not) and leaves the other two
\* snapshots alone; no other step of applyAction changes a snapshot.
C8_OneWriteThenRefresh ==
  [][/\ (apply.pc = "refresh" /\ applyObs'.outcome = "applied") =>
          LET e == apply.action.entity
              fresh == CASE e = "appointment" -> latestAppts'
                         [] e = "medication" -> latestMeds'
                         [] OTHER -> latestLogs'
          IN  /\ applyObs.calls = 1
              /\ applyObs.done = 1
              /\ apply.call.entity = e
              /\ apply.call.op = apply.action.intent
              /\ fresh = db[e]
              /\ apply.call.op = "create" =>
                   /\ Len(fresh) > 0
                   /\ fresh[Len(fresh)].name = apply.call.name
                   /\ fresh[Len(fresh)].date = apply.call.date
              /\ apply.call.op = "delete" => apply.call.id \notin IdsOf(fresh)
              /\ e # "appointment" => latestAppts' = latestAppts
              /\ e # "medication" => latestMeds' = latestMeds
              /\ e # "health_log" => latestLogs' = latestLogs
     /\ (applyObs' # applyObs /\ applyObs'.outcome # "applied") =>
          snapshots' = snapshots
    ]_vars

\* C8: an appointment was created by one write call and the cached
\* appointments hold the new row.
C8_CreatedRowInSnapshot ==
  /\ applyObs.outcome = "applied"
  /\ applyObs.calls = 1
  /\ applyObs.done = 1
  /\ pendingAction = NoAction
  /\ latestAppts = db["appointment"]
  /\ \E i \in 1..Len(latestAppts) : latestAppts[i].name = Str(<<"Checkup">>)

\* C9 as stated: an update or delete call carries the id of a record of the
\* cached snapshot or of the stored list.
C9_WriteOnlyForListedRecord ==
  (apply.pc = "write" /\ apply.call.op \in {"update", "delete"}) =>
    apply.call.id \in IdsOf(apply.latest) \cup IdsOf(db[apply.call.entity])

\* C9 amended: an update or delete call carries data.id itself when data.id
\* is a non-empty string (no list is consulted); otherwise it carries the id
\* of a record of the searched list (the cached snapshot, or the fetched list
\* when the snapshot is empty) that the payload refers to by name or by
\* date/time, so that a payload referring to no record issues no call.
C9_WriteTargetsGivenOrMatchedId ==
  (apply.pc = "write" /\ apply.call.op \in {"update", "delete"}) =>
    IF TypeOf(apply.action.data["id"]) = "string"
    THEN apply.call.id = apply.action.data["id"].s /\ apply.call.id # <<>>
    ELSE LET list == SearchList(apply.latest, db[apply.call.entity])
         IN  \E i \in 1..Len(list) :
               /\ list[i].id = apply.call.id
               /\ RefersTo(apply.action, list[i], now)

\* C9: a delete that names its record by date/time has issued its call.
C9_DeleteByDateIssued ==
  /\ apply.pc = "write"
  /\ apply.call.op = "delete"
  /\ TypeOf(apply.action.data["id"]) # "string"
  /\ apply.call.id \in IdsOf(apply.latest)

\* C10: an applyAction of an update whose payload has no valid updatable
\* field is rejected before the resolver runs: it never waits for the
\* resolver's listAll and never gets to a write call.
C10_FieldCheckBeforeResolution ==
  (/\ apply.pc # "idle"
   /\ apply.action.intent = "update"
   /\ UpdateKeys(apply.action.entity, apply.action.data, now) = {}) =>
    /\ apply.pc = "getUser"
    /\ applyObs.reads = 0

\* A gesture that empties the slot: the Dismiss or the Cancel button.
Dismisses ==
  /\ gestures' = gestures + 1
  /\ pendingAction # NoAction
  /\ pendingAction' = NoAction

\* C11: the Dismiss and Cancel buttons empty the slot and do nothing else:
\* the store, the cached snapshots and the chat messages are as before, no
\* collaborator call is issued or answered, and the handlers in flight stay
\* where they are.
C11_DismissOnlyClearsSlot ==
  [][Dismisses =>
       /\ db' = db
       /\ created' = created
       /\ snapshots' = snapshots
       /\ messages' = messages
       /\ applyObs' = applyObs
       /\ sendObs' = sendObs
       /\ send' = send
       /\ apply'.pc = apply.pc
       /\ apply'.call = apply.call
       /\ <<userInput, loading, applyingAction, aiError>>' =
            <<userInput, loading, applyingAction, aiError>>
    ]_vars

\* C11: the action of the first turn was dismissed; the chat holds the turn
\* and nothing was read, written or applied.
C11_DismissedAfterOneTurn ==
  /\ gestures = 2
  /\ pendingAction = NoAction
  /\ Len(messages) = 2
  /\ StagedInTurn(1) # NoAction
  /\ applyObs = NoObs
  /\ latestAppts = db["appointment"]
  /\ db \in {SeededDb, EmptyDb}

\* C12: an applyAction started on a staged action ends either APPLIED, its
\* one write made and the slot empty, or FAILED, nothing written and the
\* payload it took, unless given up meanwhile, staged again; either way the
\* applying flag is false; and no write is made for an action that has been
\* given up (dismissed or replaced) or that an earlier attempt has written.
C12_AppliedOrFailedOnce ==
  [][/\ (apply.pc # "idle" /\ apply'.pc = "idle") =>
          /\ applyingAction' = FALSE
          /\ \/ /\ applyObs'.outcome = "applied"
                /\ applyObs'.done = 1
                /\ pendingAction' = NoAction
             \/ /\ applyObs'.outcome = "failed"
                /\ applyObs'.done = 0
                /\ apply.staged => pendingAction' = apply.action
     /\ db' # db => (apply.staged /\ slotWrites = 0)
    ]_vars

\* The step in which a handleSend that threw ends.
SendFails == send.pc # "idle" /\ send'.pc = "idle" /\ ~SendSucceeds

\* C13: when getUser, the reads or the LLM call of handleSend throws, the
\* step that ends the send shows an error notification with a message, sets
\* the loading flag to false and leaves the slot and the store as they are;
\* no step of handleSend but the staging of a successful one changes the slot.
C13_SendFailureKeepsSlot ==
  [][/\ SendFails =>
          /\ loading' = FALSE
          /\ Len(sendObs') = Len(sendObs) + 1
          /\ sendObs'[Len(sendObs')].kind = "error"
          /\ sendObs'[Len(sendObs')].message # ""
          /\ aiError' = sendObs'[Len(sendObs')].message
          /\ pendingAction' = pendingAction
          /\ db' = db
          /\ applyObs' = applyObs
     /\ (send' # send /\ ~SendSucceeds) => pendingAction' = pendingAction
    ]_vars

\* C13: the LLM call of the second turn failed; the action the first turn
\* staged is still in the slot.
C13_SecondSendFailedSlotKept ==
  /\ gestures = 2
  /\ ~loading
  /\ send.pc = "idle"
  /\ Len(messages) = 3
  /\ Len(sendObs) = 1
  /\ aiError = sendObs[1].message
  /\ pendingAction # NoAction
  /\ pendingAction = StagedInTurn(1)

\* C14: a successful send stages the payload of the parser whenever the
\* parser returns one for the reply, whatever the deriver would make of the
\* user's text; the payload of the deriver is staged only when the parser
\* returned null, and with both null the slot stays as it was.
C14_DeriverOnlyAfterParserNull ==
  [][SendSucceeds =>
       LET parsed == parseAction(messages'[Len(messages')].text)
           derived == deriveHealthLogFromInput(send.userInput)
       IN  /\ parsed # NoAction => pendingAction' = parsed
           /\ (parsed = NoAction /\ derived # NoAction) => pendingAction' = derived
           /\ (parsed = NoAction /\ derived = NoAction) =>
                pendingAction' = pendingAction
    ]_vars

\* C14: the user's text alone would derive a health log, the reply carries
\* an appointment block, and the appointment is what is staged.
C14_ParsedWinsOverDerived ==
  /\ gestures = 1
  /\ Len(messages) = 2
  /\ deriveHealthLogFromInput(messages[1].text) # NoAction
  /\ parseAction(messages[2].text) # NoAction
  /\ pendingAction = parseAction(messages[2].text)
  /\ pendingAction.entity = "appointment"

\* C15: the parser returns a payload only if the parsed JSON has a known
\* entity, a known intent and a data member; a candidate missing one of
\* the three is discarded.
C15_ParsedPayloadIsComplete ==
  (probe.fn = "parseAction" /\ probe.done /\ probe.out # NoAction)
    => WellFormed(probe.out)

\* A reply whose block carries entity and intent but no data is parsed.
C15_PayloadWithoutDataReturned ==
  /\ probe.fn = "parseAction"
  /\ probe.done
  /\ probe.arg = <<FenceOpen, "noData", FenceClose>>
  /\ probe.out.entity = "appointment"
  /\ probe.out.intent = "create"
  /\ probe.out.data = NoData

\* C16: round trip: a well-formed payload written as JSON inside a fenced
\* block tagged symptomsync-action, with any assistant prose before and after
\* the block, is parsed back to a payload equal to the original.
C16_RoundTripAnyProse ==
  (probe.fn = "roundTrip" /\ probe.done)
    => (WellFormed(probe.payload) => probe.out = probe.payload)

\* A payload whose notes hold a fence, followed by prose in braces, is lost.
C16_FenceInNotesLost ==
  /\ probe.fn = "roundTrip"
  /\ probe.done
  /\ probe.payload = FenceNotePayload
  /\ probe.before = <<>>
  /\ probe.after = <<"{oops}">>
  /\ probe.out = NoAction

\* C17: when data.id is a string, the resolver of each entity kind returns
\* exactly that id, whatever the snapshot holds and whatever name or date
\* the data bag also carries, and makes no listAll call.
C17_StringIdReturnedUnsearched ==
  (probe.fn = "resolve" /\ probe.done /\ TypeOf(probe.data["id"]) = "string")
    => /\ probe.out = probe.data["id"]
       /\ probe.listAllCalls = 0

\* The id "9" is returned although the name matches record "1" of the store
\* and the snapshot is empty.
C17_IdWinsOverMatchingName ==
  /\ probe.fn = "resolve"
  /\ probe.done
  /\ probe.entity = "medication"
  /\ probe.data["id"] = Str(<<"9">>)
  /\ probe.data["medication_name"] = Str(<<"dentist">>)
  /\ probe.latest = <<>>
  /\ Len(probe.stored) = 2
  /\ probe.out = Str(<<"9">>)
  /\ probe.listAllCalls = 0

\* The list a resolver call without string id searched, and the records of
\* it that the reference of the call designates by name or by date.
Searched == IF Len(probe.latest) > 0 THEN probe.latest ELSE probe.stored

SameNameIgnoringCase(record, given) ==
  /\ TypeOf(given) = "string"
  /\ given.s # <<>>
  /\ TypeOf(record.name) = "string"
  /\ toLowerCase(record.name.s) = toLowerCase(given.s)

SameInstant(record, given) ==
  /\ TypeOf(given) = "string"
  /\ parseDateTime(given, now) # NoInstant
  /\ record.date = parseDateTime(given, now)

Designated ==
  {i \in 1..Len(Searched) :
     \/ SameNameIgnoringCase(Searched[i], probe.data[NameKeyFor(probe.entity)])
     \/ SameInstant(Searched[i], probe.data[DateKeyFor(probe.entity)])}

\* C18: without a string id, the resolver returns the id of the first record
\* of the searched list whose name equals the given name ignoring case or
\* whose date equals the resolved date of the payload, and undefined when no
\* record does; with the one record "Dentist" and the name "dentist" it
\* returns the id of that record. (A name is given when the reference
\* carries a string that is not empty: SameNameIgnoringCase.)
C18_FirstMatchByNameOrDate ==
  (probe.fn = "resolve" /\ probe.done /\ TypeOf(probe.data["id"]) # "string")
    => /\ Designated = {} => probe.out = Undefined
       /\ Designated # {} =>
            \E i \in Designated :
              /\ \A j \in Designated : i <= j
              /\ probe.out = Str(Searched[i].id)
       /\ ( /\ probe.entity = "appointment"
            /\ probe.latest =
                 <<Record(<<"1">>, Str(<<"Dentist">>), StartOfDay(12) + 8)>>
            /\ probe.data["appointment_name"] = Str(<<"dentist">>) )
           => probe.out = Str(<<"1">>)

\* Record "3" matches by date only and comes first; record "1" matches by
\* name and by date: the id returned is "3".
C18_EarlierDateMatchWins ==
  /\ probe.fn = "resolve"
  /\ probe.done
  /\ probe.entity = "appointment"
  /\ probe.data["id"] = Undefined
  /\ probe.data["appointment_name"] = Str(<<"dentist">>)
  /\ probe.data["date"] = Str(<<"2025-03-10T08:00:00Z">>)
  /\ probe.latest =
       <<Record(<<"3">>, Str(<<"Checkup">>), StartOfDay(12) + 8),
         Record(<<"1">>, Str(<<"Dentist">>), StartOfDay(12) + 8)>>
  /\ probe.out = Str(<<"3">>)

\* What the resolver of the call returns when it searches the given list.
FoundIn(list) ==
  ResolveId(ActionPayload(probe.entity, "delete", probe.data), list, now)

\* C19: without a string id, the resolver searches the cached snapshot of
\* its entity kind when that snapshot is not empty, and calls no listAll; it
\* calls listAll once and searches the answer only when the snapshot is empty.
C19_SnapshotFirstElseListAll ==
  (probe.fn = "resolve" /\ probe.done /\ TypeOf(probe.data["id"]) # "string")
    => /\ Len(probe.latest) > 0 =>
            probe.listAllCalls = 0 /\ probe.out = FoundIn(probe.latest)
       /\ Len(probe.latest) = 0 =>
            probe.listAllCalls = 1 /\ probe.out = FoundIn(listAll(probe.stored))

\* The snapshot holds record "1" only, the store holds "2" before "1": the
\* name is resolved to "1" and the store is not asked.
C19_StaleSnapshotSearched ==
  /\ probe.fn = "resolve"
  /\ probe.done
  /\ probe.entity = "health_log"
  /\ probe.data["id"] = Num(1)
  /\ probe.data["symptom_type"] = Str(<<"dentist">>)
  /\ probe.latest = <<Record(<<"1">>, Str(<<"Dentist">>), StartOfDay(12) + 8)>>
  /\ Len(probe.stored) = 2
  /\ probe.stored[1].id = <<"2">>
  /\ probe.listAllCalls = 0
  /\ probe.out = Str(<<"1">>)

\* C20: on every create, the name and the date passed to the write
\* collaborator are the name string of the payload and the instant its date
\* resolves to; a create whose name or date is missing or unresolvable is not
\* issued with a default, except that a health log gets the instant of the
\* apply as start_date when the payload gives none that resolves.
C20_CreatePassesPayloadValues ==
  (apply.pc \in {"write", "refresh"} /\ apply.call.op = "create")
    => LET data == apply.action.data
           entity == apply.action.entity
           given == parseDateTime(StringOrUndefined(data[DateKeyFor(entity)]), now)
       IN  /\ TypeOf(data[NameKeyFor(entity)]) = "string"
           /\ apply.call.name = data[NameKeyFor(entity)]
           /\ entity # "health_log" =>
                given # NoInstant /\ apply.call.date = given
           /\ entity = "health_log" =>
                apply.call.date = (IF given # NoInstant THEN given ELSE now)

\* A health log whose start_date is "Tomorrow", which resolves to nothing,
\* is created with the instant of the apply.
C20_UndatedLogStartsNow ==
  /\ apply.pc = "write"
  /\ apply.call.op = "create"
  /\ apply.call.entity = "health_log"
  /\ apply.action.data["start_date"] = Str(<<"Tomorrow">>)
  /\ apply.call.name = Str(<<"Headache">>)
  /\ apply.call.date = now

\* C21: the step that ends a successful send leaves the chat history as it
\* was when the send began, followed by the user's message and then by the
\* reply of the assistant, whether or not the turn staged an action.
C21_TurnAppendsQuestionThenReply ==
  [][SendSucceeds =>
       /\ Len(messages') = Len(send.messages) + 2
       /\ SubSeq(messages', 1, Len(send.messages)) = send.messages
       /\ messages'[Len(messages') - 1] = ChatMessage("user", send.userInput)
       /\ messages'[Len(messages')].role = "model"
    ]_vars

\* A send has succeeded and the history holds the reply alone.
C21_ReplyWithoutQuestion ==
  /\ send.pc = "idle"
  /\ ~loading
  /\ Len(messages) = 1
  /\ messages[1].role = "model"
  /\ userInput = <<>>
  /\ gestures = 2

IsPrefix(before, after) ==
  Len(before) <= Len(after) /\ SubSeq(after, 1, Len(before)) = before

\* C22: the chat messages are append-only: in every step the sequence that
\* existed before the step is a prefix of the sequence that exists after it.
C22_MessagesAppendOnly == [][IsPrefix(messages, messages')]_vars

\* The chat restored from localStorage has been replaced by the message of
\* a send that began before the restore.
C22_RestoredChatOverwritten ==
  /\ userId = "user"
  /\ Len(storedChat) = 2
  /\ send.pc = "chat"
  /\ send.messages = <<>>
  /\ messages = <<ChatMessage("user", send.userInput)>>

\* The relative word a text begins with ("" when it begins with none), the
\* days it shifts by, and what follows it once separators are dropped.
LeadingWord(text) ==
  IF text # <<>> /\ LowerToken(Head(text))
                     \in {"today", "tonight", "tomorrow", "tmr", "yesterday"}
  THEN LowerToken(Head(text))
  ELSE ""

DaysShifted(word) ==
  CASE word \in {"tomorrow", "tmr"} -> 1
    [] word = "yesterday" -> 0 - 1
    [] OTHER -> 0

AfterWord(text) == trim(SkipSeparators(Tail(text)))

\* C23: parseDateTime returns null for an absent or empty input and for a
\* relative word alone (today, tonight, tomorrow, tmr, yesterday); for a
\* relative word followed by a time it returns the instant of that time on
\* the day of now shifted by 0, 0, +1, +1 and -1 days; every call returns.
C23_RelativeWordsResolved ==
  (probe.fn = "parseDateTime" /\ probe.done)
    => /\ probe.arg \in {Undefined, Null, Str(<<>>)} => probe.out = NoInstant
       /\ TypeOf(probe.arg) = "string" =>
            LET text == trim(probe.arg.s)
                word == LeadingWord(text)
            IN  /\ (word # "" /\ AfterWord(text) = <<>>) => probe.out = NoInstant
                /\ (word # "" /\ AfterWord(text) \in TimeTexts) =>
                     probe.out =
                       StartOfDay(DayOf(now) + DaysShifted(word))
                         + TimeOfDay(AfterWord(text))
       /\ probe.out = NoInstant \/ probe.out >= 0

\* "yesterday, 8:00 AM" is resolved to 8 o'clock of the day before now.
C23_YesterdayMorning ==
  /\ probe.fn = "parseDateTime"
  /\ probe.done
  /\ probe.arg = Str(<<"yesterday", ",", " ", "8:00 AM">>)
  /\ probe.out = StartOfDay(DayOf(now) - 1) + 8

\* The message holds the letters of a log keyword, or a number of one or two
\* digits standing alone.
HoldsLogKeyword(input) ==
  \E i \in 1..Len(input) : input[i] \in {"log", "blog", "record"}
HoldsSmallInteger(input) ==
  \E i \in 1..Len(input) : input[i] \in {"7", "12"}

SymptomSeverityDate(input) ==
  LET parts == Parts(input)
  IN  /\ Len(parts) = 3
      /\ NumbersIn(parts[1]) = <<>>
      /\ ~LooksLikeDate(parts[1])
      /\ SeverityMatch(parts[2]) # 0
      /\ LooksLikeDate(parts[3])

\* C25: when the message of the user is a symptom phrase, a phrase holding
\* an integer from 1 to 10 and a date/time phrase between commas, and the
\* reply holds no action, the send stages health_log/create with the first
\* segment as symptom_type, that integer as severity, the date/time segment
\* as start_date, and notes made only of the segments used for none of the
\* three: here no notes at all.
C25_SegmentsBecomeFields ==
  [][(/\ SendSucceeds
      /\ SymptomSeverityDate(send.userInput)
      /\ parseAction(messages'[Len(messages')].text) = NoAction)
       => LET parts == Parts(send.userInput)
          IN  /\ pendingAction'.entity = "health_log"
              /\ pendingAction'.intent = "create"
              /\ pendingAction'.data["symptom_type"] = Str(parts[1])
              /\ pendingAction'.data["severity"] = Num(SeverityMatch(parts[2]))
              /\ pendingAction'.data["start_date"] = Str(parts[3])
              /\ pendingAction'.data["notes"] = Undefined
    ]_vars

\* The action staged for "Headache, severity 7, today 5:00 PM" carries the
\* severity segment as its notes.
C25_SeverityPhraseInNotes ==
  /\ send.pc = "idle"
  /\ Len(messages) = 2
  /\ SymptomSeverityDate(messages[1].text)
  /\ pendingAction.entity = "health_log"
  /\ pendingAction.data["severity"] = Num(7)
  /\ pendingAction.data["start_date"] = Str(<<"today", " ", "5:00 PM">>)
  /\ pendingAction.data["notes"] = Str(<<"severity", " ", "7">>)

\* The step in which applyAction starts its write collaborator call.
WriteStarts == apply.pc # "write" /\ apply'.pc = "write"

\* C26: an applyAction whose action the user has dismissed starts no write
\* call: no write call is started while the slot is empty (during an
\* applyAction only the Dismiss and Cancel buttons empty the slot).
C26_NoWriteStartedAfterDismiss ==
  [][WriteStarts => pendingAction # NoAction]_vars

\* The action was dismissed while getUser was pending, and its row has been
\* written all the same: the slot is empty, the write call has succeeded.
C26_DismissedActionWritten ==
  /\ apply.pc = "refresh"
  /\ ~apply.staged
  /\ pendingAction = NoAction
  /\ applyObs.done = 1
  /\ gestures = 3

\* The step in which applyAction ends after its write and re-fetch succeeded.
ApplySucceeds == apply.pc = "refresh" /\ applyObs'.outcome = "applied"

\* C27: an applyAction that succeeds clears from the slot only the payload
\* it applied: when a send has staged another action since the apply took
\* its own, that action is still in the slot, unwritten, after the apply ends.
C27_SuccessClearsOnlyApplied ==
  [][(ApplySucceeds /\ ~apply.staged /\ pendingAction # NoAction)
       => (pendingAction' = pendingAction /\ slotWrites' = 0)]_vars

\* A send staged an appointment while the apply of the health log of the
\* first turn was in flight; the apply has ended and the slot is empty,
\* the appointment neither staged nor written.
C27_LaterActionLost ==
  /\ apply.pc = "idle"
  /\ applyObs.outcome = "applied"
  /\ Len(messages) = 4
  /\ StagedInTurn(1).entity = "health_log"
  /\ StagedInTurn(3).entity = "appointment"
  /\ pendingAction = NoAction
  /\ db["appointment"] = <<>>
  /\ Len(db["health_log"]) = 1
  /\ gestures = 3

\* The position, counted from 0, of a model in the list of the call.
IndexIn(models, modelName) ==
  CHOOSE k \in 0..(Len(models) - 1) : models[k + 1] = modelName

RefersToNothing ==
  LET name == probe.data[NameKeyOf(probe.entity)]
      date == probe.data[DateKeyOf(probe.entity)]
  IN  /\ TypeOf(probe.data["id"]) # "string"
      /\ TypeOf(name) # "string" \/ name.s = <<>>
      /\ TypeOf(date) # "string" \/ parseDateTime(date, now) = NoInstant

\* C29: when the data bag holds no string id, no non-empty name and no
\* resolvable date or time, the resolver of each entity kind returns
\* undefined, whatever the snapshot and the store hold, records with an
\* empty or a null name included.
C29_NoReferenceResolvesNothing ==
  (probe.fn = "resolve" /\ probe.done /\ RefersToNothing)
    => probe.out = Undefined

\* C29: the id is a number, the name is empty and the date is the word
\* "Tomorrow" alone; the snapshot begins with a record whose name is empty
\* and nothing is resolved.
C29_EmptyNameMatchesNoRecord ==
  /\ probe.fn = "resolve"
  /\ probe.done
  /\ probe.entity = "appointment"
  /\ probe.data["id"] = Num(1)
  /\ probe.data["appointment_name"] = Str(<<>>)
  /\ probe.data["date"] = Str(<<"Tomorrow">>)
  /\ Len(probe.latest) = 2
  /\ probe.latest[1].name = Str(<<>>)
  /\ probe.out = Undefined

\* C30: the history chatWithHealthAI is called with is never empty and
\* begins with an entry of the user, whatever the chat messages held when
\* the send began: nothing, a chat restored from localStorage, or what a
\* clear during an earlier send left.
C30_HistoryBeginsWithUser ==
  send.pc = "chat"
    => /\ Len(send.newHistory) > 0
       /\ send.newHistory[1].role = "user"

\* C30: nothing was restored, the chat was cleared during the first send
\* and its reply is all the second send found: the LLM is called with the
\* new message alone.
C30_SentAfterClearDuringSend ==
  /\ storedChat = <<>>
  /\ send.pc = "chat"
  /\ Len(send.messages) = 1
  /\ send.messages[1].role = "model"
  /\ send.newHistory = <<[role |-> "user", parts |-> <<send.userInput>>]>>

====================================================================
